---- MODULE Spec2Model ----
(***************************************************************************)
(* Model of the AutoProf pipeline engine (src/Pipeline.py):                 *)
(*   Isophote_Pipeline.__init__, UpdatePipeline, Process_Image,             *)
(*   Process_List and Process_ConfigFile.                                   *)
(*                                                                          *)
(* Python values are modelled as follows.                                   *)
(*   dict          a function; DOMAIN is the key set; {} is EmptyDict       *)
(*   list          a sequence                                               *)
(*   the int 1     [tag |-> "int", v |-> 1]   (the failure return value)    *)
(*   a dict value  [tag |-> "dict", v |-> d]  (where its type is tested)    *)
(*   None          [tag |-> "none"]                                         *)
(*   a str         [tag |-> "str", v |-> s]                                 *)
(*   a 2-tuple     [tag |-> "tuple", dat |-> x, res |-> y]                  *)
(* Analysis steps are external to the engine; a step function is modelled   *)
(* by what it hands back to the engine for a given image and results.       *)
(***************************************************************************)
EXTENDS Integers, Sequences, FiniteSets, TLC

\* ------------------------------------------------------------------ bounds

\* Longest image list of a batch.
MaxImages == 3

\* Largest n_procs option of a batch.
MaxProcs == 2

\* Loop iterations of Process_Image after which a run is taken to loop forever.
MaxTicks == 7

\* Elapsed times of a step are drawn from 1..MaxElapsed.
MaxElapsed == 2

\* ------------------------------------------------------------ python values

EmptyDict == [k \in {} |-> 0]

\* dict.update(e): keys of e overwrite, all other keys are kept.
DictUpdate(d, e) ==
  [k \in (DOMAIN d) \cup (DOMAIN e) |-> IF k \in DOMAIN e THEN e[k] ELSE d[k]]

PyInt(n) == [tag |-> "int", v |-> n]
PyDict(d) == [tag |-> "dict", v |-> d]
PyNone == [tag |-> "none"]
PyStr(s) == [tag |-> "str", v |-> s]
PyTuple(x, y) == [tag |-> "tuple", dat |-> x, res |-> y]
PyList(l) == [tag |-> "list", v |-> l]

\* r == 1 in Python, for r an int or a dict.
EqualsOne(r) == r.tag = "int" /\ r.v = 1

Range(s) == {s[i] : i \in 1..Len(s)}

VARIABLES
  pipeline_methods,   \* self.pipeline_methods: step name -> step function
  pipeline_steps,     \* self.pipeline_steps: sequence name -> list of step names
  call,               \* the configuration call last made and how it ended
  job,                \* the activation of Process_Image of a single-image run
  batch               \* the activation of Process_List of a batch run

vars == <<pipeline_methods, pipeline_steps, call, job, batch>>

\* ------------------------------------------------------- registry and graph

\* The step names of the model that contain the substring 'branch'
\* (the test  'branch' in name  of Process_Image, tabulated over the names used).
BranchNames == {"branch 1", "branch 2"}

\* HasBranch decided by the function the registry holds for the name: the
\* functions written as Branch steps.
HasBranch_ByFunction(name) ==
  /\ name \in DOMAIN pipeline_methods
  /\ pipeline_methods[name] \in
       {"Branch_None", "Branch_Alt", "Branch_Head", "Branch_Once",
        "Branch_Hard", "Branch_Nowhere", "Branch_Raise"}

\* Line 145: 'branch' in self.pipeline_steps[key][step].
HasBranch(name) == name \in BranchNames

\* pipeline_methods as built by __init__.
DefaultMethods ==
  [n \in {"background", "background dilatedsources", "background unsharp",
          "background basic", "psf", "psf IRAF", "center", "center mean",
          "center forced", "center 2DGaussian", "center 1DGaussian",
          "center OfMass", "isophoteinit", "isophoteinit mean", "isophotefit",
          "isophotefit mean", "isophotefit forced", "isophotefit photutils",
          "starmask", "mask segmentation map", "isophoteextract",
          "isophoteextract forced", "checkfit", "writeprof", "ellipsemodel",
          "ellipsemodel general", "radsample", "orthsample"} |->
     CASE n = "background" -> "Background_Mode"
       [] n = "background dilatedsources" -> "Background_DilatedSources"
       [] n = "background unsharp" -> "Background_Unsharp"
       [] n = "background basic" -> "Background_Basic"
       [] n = "psf" -> "PSF_StarFind"
       [] n = "psf IRAF" -> "PSF_IRAF"
       [] n = "center" -> "Center_HillClimb"
       [] n = "center mean" -> "Center_HillClimb_mean"
       [] n = "center forced" -> "Center_Forced"
       [] n = "center 2DGaussian" -> "Center_2DGaussian"
       [] n = "center 1DGaussian" -> "Center_1DGaussian"
       [] n = "center OfMass" -> "Center_OfMass"
       [] n = "isophoteinit" -> "Isophote_Initialize"
       [] n = "isophoteinit mean" -> "Isophote_Initialize_mean"
       [] n = "isophotefit" -> "Isophote_Fit_FFT_Robust"
       [] n = "isophotefit mean" -> "Isophote_Fit_FFT_mean"
       [] n = "isophotefit forced" -> "Isophote_Fit_Forced"
       [] n = "isophotefit photutils" -> "Photutils_Fit"
       [] n = "starmask" -> "Star_Mask_IRAF"
       [] n = "mask segmentation map" -> "Mask_Segmentation_Map"
       [] n = "isophoteextract" -> "Isophote_Extract"
       [] n = "isophoteextract forced" -> "Isophote_Extract_Forced"
       [] n = "checkfit" -> "Check_Fit"
       [] n = "writeprof" -> "WriteProf"
       [] n = "ellipsemodel" -> "EllipseModel_Fix"
       [] n = "ellipsemodel general" -> "EllipseModel_General"
       [] n = "radsample" -> "Radial_Sample"
       [] OTHER -> "Orthogonal_Sample"]

\* pipeline_steps['head'] as built by __init__.
DefaultHead ==
  <<"background", "psf", "center", "isophoteinit",
    "isophotefit", "isophoteextract", "checkfit", "writeprof">>

\* pipeline_steps as built by __init__.
DefaultSteps == [k \in {"head"} |-> DefaultHead]

\* ForcedHead with the fit check of the default list left in.
ForcedHead_KeepsCheckfit ==
  <<"background", "psf", "center forced", "isophoteinit",
    "isophotefit forced", "isophoteextract forced", "checkfit", "writeprof">>

\* The head list Process_ConfigFile installs when 'forced' is in process_mode.
ForcedHead ==
  <<"background", "psf", "center forced", "isophoteinit",
    "isophotefit forced", "isophoteextract forced", "writeprof">>


\* ------------------------------------------------------------ UpdatePipeline

\* Python truth value of an argument that is None, a dict or a list.
Truthy(x) ==
  CASE x.tag = "none" -> FALSE
    [] x.tag = "dict" -> DOMAIN x.v # {}
    [] x.tag = "list" -> Len(x.v) > 0
    [] OTHER -> TRUE

\* UpdateMethods with the registry replaced by the update.
UpdateMethods_Replaces(methods, new_pipeline_methods) ==
  IF Truthy(new_pipeline_methods) THEN new_pipeline_methods.v ELSE methods

\* Lines 88-90: a non-empty new_pipeline_methods is merged into the registry.
UpdateMethods(methods, new_pipeline_methods) ==
  IF Truthy(new_pipeline_methods)
  THEN DictUpdate(methods, new_pipeline_methods.v)
  ELSE methods

\* HeadAsserted with the assert compiled away.
HeadAsserted_Off(new_pipeline_steps) == TRUE

\* Line 96: the assert on a dict of sequences.
HeadAsserted(new_pipeline_steps) == "head" \in DOMAIN new_pipeline_steps.v

\* UpdateSteps with a list installed as the whole graph.
UpdateSteps_ListReplacesGraph(steps, new_pipeline_steps) ==
  IF ~Truthy(new_pipeline_steps) THEN [steps |-> steps, raised |-> FALSE]
  ELSE IF new_pipeline_steps.tag = "list"
  THEN [steps |-> [k \in {"head"} |-> new_pipeline_steps.v], raised |-> FALSE]
  ELSE IF HeadAsserted(new_pipeline_steps)
       THEN [steps |-> new_pipeline_steps.v, raised |-> FALSE]
       ELSE [steps |-> steps, raised |-> TRUE]

\* UpdateSteps with a list added to the end of the head list.
UpdateSteps_ExtendsHead(steps, new_pipeline_steps) ==
  IF ~Truthy(new_pipeline_steps) THEN [steps |-> steps, raised |-> FALSE]
  ELSE IF new_pipeline_steps.tag = "list"
  THEN [steps |-> DictUpdate(steps, [k \in {"head"} |->
                                       steps["head"] \o new_pipeline_steps.v]),
        raised |-> FALSE]
  ELSE IF HeadAsserted(new_pipeline_steps)
       THEN [steps |-> new_pipeline_steps.v, raised |-> FALSE]
       ELSE [steps |-> steps, raised |-> TRUE]

\* UpdateSteps with a dict installed whether or not it has the key 'head'.
UpdateSteps_NoAssert(steps, new_pipeline_steps) ==
  IF ~Truthy(new_pipeline_steps) THEN [steps |-> steps, raised |-> FALSE]
  ELSE IF new_pipeline_steps.tag = "list"
  THEN [steps |-> DictUpdate(steps, [k \in {"head"} |-> new_pipeline_steps.v]),
        raised |-> FALSE]
  ELSE [steps |-> new_pipeline_steps.v, raised |-> FALSE]

\* Lines 91-97: a non-empty list replaces pipeline_steps['head']; a non-empty
\* dict replaces pipeline_steps after the assert that it has a 'head' key.
\* The result is the new pipeline_steps and whether AssertionError was raised.
UpdateSteps(steps, new_pipeline_steps) ==
  IF ~Truthy(new_pipeline_steps) THEN [steps |-> steps, raised |-> FALSE]
  ELSE IF new_pipeline_steps.tag = "list"
  THEN [steps |-> DictUpdate(steps, [k \in {"head"} |-> new_pipeline_steps.v]),
        raised |-> FALSE]
  ELSE IF new_pipeline_steps.tag = "dict"
  THEN IF HeadAsserted(new_pipeline_steps)
       THEN [steps |-> new_pipeline_steps.v, raised |-> FALSE]
       ELSE [steps |-> steps, raised |-> TRUE]
  ELSE [steps |-> steps, raised |-> FALSE]

\* UpdatePipeline(new_pipeline_methods, new_pipeline_steps) on a pipeline
\* p = [methods, steps]: the methods are merged first, then the steps.
UpdatePipeline(p, new_pipeline_methods, new_pipeline_steps) ==
  LET u == UpdateSteps(p.steps, new_pipeline_steps) IN
  [methods |-> UpdateMethods(p.methods, new_pipeline_methods),
   steps |-> u.steps,
   raised |-> u.raised]

\* The pipeline object after __init__.
Constructed == [methods |-> DefaultMethods, steps |-> DefaultSteps]


\* -------------------------------------------------------- Process_ConfigFile

\* The process_mode values of the model that contain the substring 'forced'
\* (the test  'forced' in c.process_mode  of line 250, tabulated).
ForcedModes == {"forced image", "forced image list", "forced"}

ProcessModes == {"image", "image list", "other"} \cup ForcedModes

\* An attribute the configuration module does not define: reading it raises
\* AttributeError.
Absent == [tag |-> "absent"]

\* Lines 250-252: the forced head list is installed when the mode says so.
ApplyMode(p, process_mode) ==
  IF process_mode \in ForcedModes
  THEN UpdatePipeline(p, PyNone, PyList(ForcedHead))
  ELSE [methods |-> p.methods, steps |-> p.steps, raised |-> FALSE]

\* Lines 254-257: the user's methods are merged; any exception is passed over.
ApplyUserMethods(p, new_pipeline_methods) ==
  IF new_pipeline_methods = Absent THEN p
  ELSE LET q == UpdatePipeline(p, new_pipeline_methods, PyNone) IN
       IF q.raised THEN p ELSE q

\* Lines 258-261: the user's steps are installed; any exception, the
\* AssertionError of UpdatePipeline included, is passed over.
ApplyUserSteps(p, new_pipeline_steps) ==
  IF new_pipeline_steps = Absent THEN p
  ELSE LET q == UpdatePipeline(p, PyNone, new_pipeline_steps) IN
       IF q.raised THEN p ELSE q

\* Lines 265-271: the function the mode selects.
Dispatch(process_mode) ==
  CASE process_mode \in {"image", "forced image"} -> "Process_Image"
    [] process_mode \in {"image list", "forced image list"} -> "Process_List"
    [] OTHER -> "return 1"

\* ConfigurePipeline with the mode's head list installed after the user's
\* updates.
ConfigurePipeline_ModeLast(p, c) ==
  ApplyMode(
    ApplyUserSteps(ApplyUserMethods(p, c.new_pipeline_methods),
                   c.new_pipeline_steps),
    c.process_mode)

\* Lines 250-261 on pipeline p for the configuration module c.
ConfigurePipeline(p, c) ==
  ApplyUserSteps(
    ApplyUserMethods(ApplyMode(p, c.process_mode), c.new_pipeline_methods),
    c.new_pipeline_steps)

\* ------------------------------------------------------------ step functions

\* Image files of the model, named by what Read_Image finds in them:
\*   "unreadable"  Read_Image raises
\*   "null"        Read_Image returns None
\*   "zero"        the centred 20x20 window of the frame is all zero
\*   "partial"     all zero in the left part of that window only
\*   "good"        a frame every step can process
\*   "hard"        a frame on which the step function Step_Hard raises
ImageFiles == {"unreadable", "null", "zero", "partial", "good", "hard"}

\* The characters of the file names: with and without a directory part, with
\* and without an extension, and with dots in the directory and twice in the
\* file's own name.
Chars(file) ==
  CASE file = "good" -> <<"d", "/", "g", ".", "f">>
    [] file = "hard" -> <<"h", ".", "f">>
    [] file = "zero" -> <<"d", "/", "z">>
    [] file = "null" -> <<"n">>
    [] file = "partial" -> <<"/", "p", ".", "f">>
    [] OTHER -> <<"d", ".", "d", "/", "u", ".", "f", ".", "g">>

\* file.find(ch, start): the lowest 0-based index from start on where ch is,
\* or -1.
Find(file, ch, start) ==
  LET at == {i \in start..(Len(file) - 1) : file[i + 1] = ch} IN
  IF at = {} THEN -1 ELSE CHOOSE i \in at : \A k \in at : i <= k

\* file.rfind(ch): the highest 0-based index where ch is, or -1.
RFind(file, ch) ==
  LET at == {i \in 0..(Len(file) - 1) : file[i + 1] = ch} IN
  IF at = {} THEN -1 ELSE CHOOSE i \in at : \A k \in at : i >= k

\* file[a:b] for 0 <= a: a negative b counts from the end of the string.
Slice(file, a, b) ==
  LET stop == IF b < 0 THEN (IF Len(file) + b < 0 THEN 0 ELSE Len(file) + b)
              ELSE (IF b > Len(file) THEN Len(file) ELSE b)
  IN SubSeq(file, a + 1, stop)

\* Lines 117-118: the name taken from the file name.
DeriveName(file) ==
  LET startat == IF "/" \in Range(file) THEN RFind(file, "/") ELSE 0 IN
  Slice(file, startat, Find(file, ".", startat))

\* Line 116: options has a name and it is a str.
HasName(options) == "name" \in DOMAIN options /\ options["name"].tag = "str"

\* Lines 115-118: options['name'] is set from the file name unless a str is
\* there.
NameOptions(options) ==
  IF HasName(options) THEN options
  ELSE DictUpdate(options,
                  [k \in {"name"} |->
                     PyStr(DeriveName(Chars(options["image_file"].v)))])

\* The frames of the image files: a frame of rows x cols pixels that is zero
\* on the rows zr[1] .. zr[2] - 1 of the columns zc[1] .. zc[2] - 1 and not
\* zero elsewhere.  "zero" has a block of 40 x 40 zeros at its centre.
Frame(file) ==
  CASE file = "zero" ->
         [rows |-> 100, cols |-> 100, zr |-> <<30, 70>>, zc |-> <<30, 70>>]
    [] file = "partial" ->
         [rows |-> 100, cols |-> 100, zr |-> <<30, 70>>, zc |-> <<30, 45>>]
    [] OTHER ->
         [rows |-> 100, cols |-> 100, zr |-> <<0, 0>>, zc |-> <<0, 0>>]

\* Read_Image(options['image_file'], options): the frame, None, or a raise.
Read_Image(file) ==
  CASE file = "unreadable" -> [tag |-> "raise"]
    [] file = "null" -> PyNone
    [] OTHER -> PyStr(file)

\* np.all(dat[centre window] == 0) of line 128, for a frame that was read:
\* the window is the rows int(len(dat)/2.) - 10 .. int(len(dat)/2.) + 9 of the
\* columns int(len(dat[0])/2.) - 10 .. int(len(dat[0])/2.) + 9.
CenterAllZero(dat) ==
  LET f == Frame(dat)
      r == f.rows \div 2
      c == f.cols \div 2
  IN /\ f.zr[1] <= r - 10 /\ r + 10 <= f.zr[2]
     /\ f.zc[1] <= c - 10 /\ c + 10 <= f.zc[2]

\* What a step function hands back when the engine calls it with
\* (dat, results, options): a Python value, or [tag |-> "raise"].
\* The Step_ functions follow the Regular contract (a 2-tuple of frame and
\* partial results) or break it; the Branch_ functions return a sequence name
\* or None.  The functions of the default registry return a frame and one key.
StepCall(method, dat, results, options) ==
  CASE method = "Step_A" -> PyTuple(dat, PyDict([k \in {"a"} |-> 1]))
    [] method = "Step_B" -> PyTuple("clean", PyDict([k \in {"a", "b"} |-> 2]))
    [] method = "Step_Hard" ->
         IF dat = "hard" THEN [tag |-> "raise"]
         ELSE PyTuple(dat, PyDict([k \in {"c"} |-> 3]))
    [] method = "Step_Raise" -> [tag |-> "raise"]
    [] method = "Step_None" -> PyNone
    [] method = "Step_BadRes" -> PyTuple(dat, PyNone)
    [] method = "Branch_None" -> PyNone
    [] method = "Branch_Alt" -> PyStr("alt")
    [] method = "Branch_Head" -> PyStr("head")
    [] method = "Branch_Once" ->
         IF "b" \in DOMAIN results THEN PyNone ELSE PyStr("alt")
    [] method = "Branch_Hard" ->
         IF dat = "hard" THEN PyStr("alt") ELSE PyNone
    [] method = "Branch_Nowhere" -> PyStr("nowhere")
    [] method = "Branch_Raise" -> [tag |-> "raise"]
    [] OTHER -> PyTuple(dat, PyDict([k \in {"r"} |-> 4]))

\* ------------------------------------------------------------- Process_Image

\* No activation of Process_Image.
IdleJob ==
  [pc |-> "idle", options |-> EmptyDict, dat |-> "", key |-> "", step |-> 0,
   timers |-> EmptyDict, results |-> EmptyDict, ret |-> PyNone,
   nticks |-> 0, invoked |-> <<>>, completed |-> <<>>,
   errors |-> 0, redirected |-> FALSE, given |-> EmptyDict]

\* Process_Image(options) has been called and stands at its first line.
\* invoked and completed are history: the step names whose function was
\* called, and the names of the Regular steps that ran to line 157.
\* errors, redirected and given are history too: the number of logging.error
\* calls made, whether a Branch step has returned a str, and the options as
\* they were when the call was made.
CalledJob(options) ==
  [IdleJob EXCEPT !.pc = "called", !.options = options, !.given = options]

\* return 1
ReturnOne(j) == [j EXCEPT !.pc = "returned", !.ret = PyInt(1)]

\* Lines 124-125 and 129-130: one logging.error, and return 1.
Refused(j) == ReturnOne([j EXCEPT !.errors = @ + 1])

\* Fault with the one logging.error of line 159 only.
Fault_OneEntry(j) == ReturnOne([j EXCEPT !.errors = @ + 1])

\* Lines 158-161, the except clause of the loop body: logging.error with the
\* step and the exception, logging.error with the trace, and return 1.
Fault(j) == ReturnOne([j EXCEPT !.errors = @ + 2])

\* StartImage without the test of the centre window.
StartImage_NoWindowTest(j) ==
  LET j1 == [j EXCEPT !.options = NameOptions(@)]
      got == Read_Image(j.options["image_file"].v)
  IN IF got.tag = "raise" THEN Refused(j1)
     ELSE IF got.tag = "none" THEN Refused(j1)
     ELSE [j1 EXCEPT !.pc = "loop", !.dat = got.v, !.key = "head", !.step = 0,
                     !.timers = EmptyDict, !.results = EmptyDict]

\* Lines 115-140: name the job, read the frame, refuse a missing or empty
\* one, and set up the run at ('head', 0) with empty timers and results.
StartImage(j) ==
  LET j1 == [j EXCEPT !.options = NameOptions(@)]
      got == Read_Image(j.options["image_file"].v)
  IN IF got.tag = "raise" THEN Refused(j1)
     ELSE IF got.tag = "none" \/ CenterAllZero(got.v) THEN Refused(j1)
     ELSE [j1 EXCEPT !.pc = "loop", !.dat = got.v, !.key = "head", !.step = 0,
                     !.timers = EmptyDict, !.results = EmptyDict]

\* The run's position is inside a sequence of the graph: the while test of
\* line 141 holds.
AtStep(j) ==
  /\ j.pc = "loop"
  /\ j.key \in DOMAIN pipeline_steps
  /\ j.step < Len(pipeline_steps[j.key])

\* self.pipeline_steps[key][step]
StepName(j) == pipeline_steps[j.key][j.step + 1]

\* The run goes on: it is in its loop and has made fewer than MaxTicks step
\* calls, or its next turn makes none.
CanTick(j) == j.pc = "loop" /\ (j.nticks < MaxTicks \/ ~AtStep(j))

\* BranchMove with the index kept on a redirect.
BranchMove_KeepsIndex(j, decision) ==
  IF decision.tag = "str"
  THEN [j EXCEPT !.key = decision.v, !.redirected = TRUE]
  ELSE [j EXCEPT !.step = @ + 1]

\* BranchMove with the Branch step timed like a Regular step.
BranchMove_TimesBranch(j, decision) ==
  LET t == DictUpdate(j.timers, [k \in {StepName(j)} |-> 1]) IN
  IF decision.tag = "str"
  THEN [j EXCEPT !.key = decision.v, !.step = 0, !.redirected = TRUE,
                 !.timers = t]
  ELSE [j EXCEPT !.step = @ + 1, !.timers = t]

\* BranchMove with the index left where it is when the step does not redirect.
BranchMove_Repeats(j, decision) ==
  IF decision.tag = "str"
  THEN [j EXCEPT !.key = decision.v, !.step = 0, !.redirected = TRUE]
  ELSE j

\* Lines 147-151: a Branch step's return value moves the run.
BranchMove(j, decision) ==
  IF decision.tag = "str"
  THEN [j EXCEPT !.key = decision.v, !.step = 0, !.redirected = TRUE]
  ELSE [j EXCEPT !.step = @ + 1]

\* RegularMove with the time filed under the sequence name.
RegularMove_TimesSequence(j, name, out, el) ==
  IF out.tag # "tuple" THEN Fault(j)
  ELSE IF out.res.tag # "dict" THEN Fault(j)
  ELSE [j EXCEPT !.dat = out.dat,
                 !.results = DictUpdate(@, out.res.v),
                 !.timers = DictUpdate(@, [k \in {j.key} |-> el]),
                 !.step = @ + 1,
                 !.completed = Append(@, name)]

\* RegularMove with the keys the results already have kept as they are.
RegularMove_FirstWriteWins(j, name, out, el) ==
  IF out.tag # "tuple" THEN Fault(j)
  ELSE IF out.res.tag # "dict" THEN Fault(j)
  ELSE [j EXCEPT !.dat = out.dat,
                 !.results = DictUpdate(out.res.v, @),
                 !.timers = DictUpdate(@, [k \in {name} |-> el]),
                 !.step = @ + 1,
                 !.completed = Append(@, name)]

\* Lines 153-157: a Regular step's return value is unpacked into the frame and
\* the partial results, merged, timed under the step's name, and the index moves
\* on.  A value that does not unpack, or partial results that are no mapping,
\* raise inside the try block.
RegularMove(j, name, out, el) ==
  IF out.tag # "tuple" THEN Fault(j)
  ELSE IF out.res.tag # "dict" THEN Fault(j)
  ELSE [j EXCEPT !.dat = out.dat,
                 !.results = DictUpdate(@, out.res.v),
                 !.timers = DictUpdate(@, [k \in {name} |-> el]),
                 !.step = @ + 1,
                 !.completed = Append(@, name)]

\* LoopBody with a raising step passed over: the loop goes on with the next
\* step.
LoopBody_PassesRaise(j, el) ==
  LET name == StepName(j) IN
  IF name \notin DOMAIN pipeline_methods THEN Fault(j)
  ELSE
    LET out == StepCall(pipeline_methods[name], j.dat, j.results, j.options)
        j1 == [j EXCEPT !.invoked = Append(@, name), !.nticks = @ + 1]
    IN IF out.tag = "raise" THEN [j1 EXCEPT !.step = @ + 1]
       ELSE IF HasBranch(name) THEN BranchMove(j1, out)
       ELSE RegularMove(j1, name, out, el)

\* Lines 142-161: the body of the while loop at (key, step).  Every exception
\* raised in it is caught and turned into return 1.
LoopBody(j, el) ==
  LET name == StepName(j) IN
  IF name \notin DOMAIN pipeline_methods THEN Fault(j)
  ELSE
    LET out == StepCall(pipeline_methods[name], j.dat, j.results, j.options)
        j1 == [j EXCEPT !.invoked = Append(@, name), !.nticks = @ + 1]
    IN IF out.tag = "raise" THEN Fault(j1)
       ELSE IF HasBranch(name) THEN BranchMove(j1, out)
       ELSE RegularMove(j1, name, out, el)

\* Lines 141-165: one evaluation of the while test and what follows it: the
\* loop body, or the return of the timers when the index has run off the
\* sequence.  The test reads pipeline_steps[key] outside the try block, so a
\* key that is no sequence name raises KeyError out of Process_Image.
Tick(j, el) ==
  IF j.key \notin DOMAIN pipeline_steps THEN [j EXCEPT !.pc = "raised"]
  ELSE IF j.step < Len(pipeline_steps[j.key]) THEN LoopBody(j, el)
  ELSE [j EXCEPT !.pc = "returned", !.ret = PyDict(j.timers)]



\* ------------------------------------------------------------- Process_List

\* Elapsed times time() - step_start.
Elapsed == 1..MaxElapsed

\* The outcomes of a whole call Process_Image(options): the activation records
\* in which the call can end.  pc is "returned" (ret is 1 or the timers),
\* "raised" (an exception left the call) or, when the run is about to make
\* yet another step call after MaxTicks of them, "loop" (the call does not
\* return).
RECURSIVE Runs(_)
Runs(j) ==
  IF j.pc = "called" THEN Runs(StartImage(j))
  ELSE IF CanTick(j)
  THEN UNION {Runs(k) : k \in {Tick(j, el) : el \in Elapsed}}
  ELSE {j}

\* BuildUseOptions with entry 1 of every list value given to every image.
BuildUseOptions_FirstEntry(options) ==
  LET n == Len(options["image_file"].v) IN
  [i \in 1..n |->
     [k \in DOMAIN options |->
        IF options[k].tag = "list" THEN options[k].v[1] ELSE options[k]]]

\* Lines 176-187: the per-image options.  When no value of options is a list
\* the one options object is used for every image; otherwise image i gets
\* entry i of every list value and every other value as it is.
BuildUseOptions(options) ==
  LET n == Len(options["image_file"].v) IN
  IF \A k \in DOMAIN options : options[k].tag # "list"
  THEN [i \in 1..n |-> options]
  ELSE [i \in 1..n |->
          [k \in DOMAIN options |->
             IF options[k].tag = "list" THEN options[k].v[i] ELSE options[k]]]

\* Line 195: chunksize = 5 if len(options['image_file']) > 100 else 1.
ChunkSize(n) == IF n > 100 THEN 5 ELSE 1

\* The number of tasks pool.map cuts n items into.
NumChunks(n, cs) == (n + cs - 1) \div cs

\* The positions (1-based) of the items of task k.
ChunkItems(k, n, cs) ==
  [i \in 1..(IF k * cs <= n THEN cs ELSE n - (k - 1) * cs) |-> (k - 1) * cs + i]

\* A pool worker with no task.
IdleWorker == [st |-> "idle", chunk |-> 0, out |-> <<>>]

\* No activation of Process_List.
IdleBatch ==
  [pc |-> "idle", options |-> EmptyDict, use_options |-> <<>>, n |-> 0,
   mode |-> "", chunksize |-> 0, next |-> 0, workers |-> <<>>,
   value |-> <<>>, left |-> 0, success |-> TRUE, blocked |-> FALSE,
   ran |-> <<>>, overtaken |-> FALSE, held |-> <<>>,
   timers |-> EmptyDict, all_failed |-> FALSE, ret |-> PyNone]

\* Process_List(options) has been called and stands at its first line.
\* ran and overtaken are history: for each position, the image file
\* Process_Image was called on and what the call gave; and whether the result
\* of some task reached the map after the result of a later task.
\* use_options is the list as line 187 leaves it; held is what the dict
\* objects of that list hold now, in the process that runs Process_List.
CalledBatch(options) == [IdleBatch EXCEPT !.pc = "called", !.options = options]

\* Lines 172-197, up to the start of the map: the assert on image_file, the
\* per-image options, and the choice between the pool (n_procs > 1, one worker
\* per process, tasks of ChunkSize items) and the sequential map.
StartList(b) ==
  IF b.options["image_file"].tag # "list" THEN [b EXCEPT !.pc = "raised"]
  ELSE
    LET n == Len(b.options["image_file"].v)
        pool == b.options["n_procs"].v > 1
        cs == IF pool THEN ChunkSize(n) ELSE 1
    IN [b EXCEPT !.pc = "map",
                 !.use_options = BuildUseOptions(b.options),
                 !.held = BuildUseOptions(b.options),
                 !.n = n,
                 !.mode = IF pool THEN "pool" ELSE "seq",
                 !.chunksize = cs,
                 !.next = 1,
                 !.workers = IF pool
                             THEN [w \in 1..b.options["n_procs"].v |-> IdleWorker]
                             ELSE <<>>,
                 !.value = [i \in 1..n |-> PyNone],
                 !.left = NumChunks(n, cs),
                 !.success = TRUE,
                 !.ran = [i \in 1..n |-> PyNone],
                 !.overtaken = FALSE]

\* The history entry of one call of Process_Image that ended in f: given is
\* the options as the call received them, options as the call left them.
Ran(f) ==
  [tag |-> "ran", file |-> f.options["image_file"],
   ret |-> IF f.pc = "returned" THEN f.ret ELSE [tag |-> "raise"],
   completed |-> f.completed,
   given |-> f.given, options |-> f.options]

\* The first i positions of value that hold no result yet.
RECURSIVE FreeSlots(_, _, _)
FreeSlots(value, i, m) ==
  IF m = 0 \/ i > Len(value) THEN {}
  ELSE IF value[i].tag = "none"
       THEN {i} \cup FreeSlots(value, i + 1, m - 1)
       ELSE FreeSlots(value, i + 1, m)

\* MapSet with the results filed in the order in which tasks finish: they go
\* to the first positions that are still empty.
MapSet_ArrivalOrder(value, k, n, cs, out) ==
  LET free == FreeSlots(value, 1, Len(out)) IN
  [i \in 1..n |->
     IF i \in free THEN out[Cardinality({x \in free : x <= i})] ELSE value[i]]

\* pool.map's result object takes the results of task k: the values go to the
\* positions of the task's items.
MapSet(value, k, n, cs, out) ==
  [i \in 1..n |->
     IF (k - 1) * cs < i /\ i <= k * cs THEN out[i - (k - 1) * cs] ELSE value[i]]

\* The result of a task later than k has reached the map: the task was taken
\* and no worker holds it.
LaterArrived(b, k) ==
  \E c \in (k + 1)..(b.next - 1) :
    \A w \in DOMAIN b.workers : b.workers[w].chunk # c

\* A pool worker takes the next task from the task queue.
TakeTask(b, w) ==
  [b EXCEPT !.workers[w] = [st |-> "busy", chunk |-> b.next, out |-> <<>>],
            !.next = @ + 1]

\* A pool worker calls Process_Image on the next item of its task and the call
\* ends in f.  A call that returns adds its value to the task's results, and
\* the results of a finished task are set in the map's result.  A call that
\* raises fails the task and the map.  A call that does not return keeps the
\* worker.
WorkerRan(b, w, f) ==
  LET wk == b.workers[w]
      items == ChunkItems(wk.chunk, b.n, b.chunksize)
      pos == items[Len(wk.out) + 1]
      b1 == [b EXCEPT !.ran[pos] = Ran(f)]
      out == Append(wk.out, f.ret)
  IN CASE f.pc = "returned" /\ Len(out) < Len(items) ->
            [b1 EXCEPT !.workers[w].out = out]
       [] f.pc = "returned" /\ Len(out) = Len(items) ->
            [b1 EXCEPT !.workers[w] = IdleWorker,
                       !.value = IF b.success
                                 THEN MapSet(@, wk.chunk, b.n, b.chunksize, out)
                                 ELSE @,
                       !.left = @ - 1,
                       !.overtaken = @ \/ LaterArrived(b, wk.chunk)]
       [] f.pc = "raised" ->
            [b1 EXCEPT !.workers[w] = IdleWorker,
                       !.success = FALSE,
                       !.left = @ - 1,
                       !.overtaken = @ \/ LaterArrived(b, wk.chunk)]
       [] OTHER -> [b EXCEPT !.workers[w].st = "hung"]

\* SeqRan with one dict object for every item of use_options: what a call
\* writes into its options is there for every other call.
SeqRan_SharedOptions(b, f) ==
  LET b1 == [b EXCEPT !.ran[b.next] = Ran(f),
                      !.held = [i \in 1..b.n |-> f.options]] IN
  CASE f.pc = "returned" ->
         [b1 EXCEPT !.value[b.next] = f.ret, !.next = @ + 1, !.left = @ - 1]
    [] f.pc = "raised" -> [b1 EXCEPT !.pc = "raised", !.success = FALSE]
    [] OTHER -> [b EXCEPT !.blocked = TRUE]

\* The sequential map calls Process_Image on item b.next and the call ends in
\* f.  The call works on the dict object of the item itself, so what it wrote
\* into its options stays in that object.  An exception leaves the map and
\* Process_List at once; a call that does not return blocks Process_List.
SeqRan(b, f) ==
  LET b1 == [b EXCEPT !.ran[b.next] = Ran(f), !.held[b.next] = f.options] IN
  CASE f.pc = "returned" ->
         [b1 EXCEPT !.value[b.next] = f.ret, !.next = @ + 1, !.left = @ - 1]
    [] f.pc = "raised" -> [b1 EXCEPT !.pc = "raised", !.success = FALSE]
    [] OTHER -> [b EXCEPT !.blocked = TRUE]


\* AddResult with counts[s] left at 1 when s is met again.
AddResult_CountStays(acc, r) ==
  IF EqualsOne(r) THEN acc
  ELSE [timers |->
          [s \in (DOMAIN acc.timers) \cup (DOMAIN r.v) |->
             IF s \notin DOMAIN r.v THEN acc.timers[s]
             ELSE IF s \in DOMAIN acc.timers THEN acc.timers[s] + r.v[s]
             ELSE r.v[s]],
        counts |->
          [s \in (DOMAIN acc.counts) \cup (DOMAIN r.v) |-> 1]]

\* Lines 201-212, one turn of the loop over res: a result equal to 1 is
\* skipped; every key of any other result adds its time to timers and one to
\* counts.
AddResult(acc, r) ==
  IF EqualsOne(r) THEN acc
  ELSE [timers |->
          [s \in (DOMAIN acc.timers) \cup (DOMAIN r.v) |->
             IF s \notin DOMAIN r.v THEN acc.timers[s]
             ELSE IF s \in DOMAIN acc.timers THEN acc.timers[s] + r.v[s]
             ELSE r.v[s]],
        counts |->
          [s \in (DOMAIN acc.counts) \cup (DOMAIN r.v) |->
             IF s \notin DOMAIN r.v THEN acc.counts[s]
             ELSE IF s \in DOMAIN acc.timers THEN acc.counts[s] + 1
             ELSE 1]]

\* Lines 201-212: timers and counts after the turns of the loop over
\* res[lo..hi], in the order of res: the turns over the first half of the
\* range, then the turns over the second half.
RECURSIVE SumTimers(_, _, _, _)
SumTimers(res, lo, hi, acc) ==
  IF lo > hi THEN acc
  ELSE IF lo = hi THEN AddResult(acc, res[lo])
  ELSE LET mid == (lo + hi) \div 2 IN
       SumTimers(res, mid + 1, hi, SumTimers(res, lo, mid, acc))

\* timers[s] /= counts[s]: the quotient, kept as the fraction num/den.
Quotient(total, count) == [num |-> total, den |-> count]

\* Lines 199-221: the sums over res; with no timer at all the error
\* 'All images failed to process!' is logged and None returned, otherwise the
\* means are taken and res is returned.
FinishList(b) ==
  LET acc == SumTimers(b.value, 1, Len(b.value),
                      [timers |-> EmptyDict, counts |-> EmptyDict]) IN
  IF DOMAIN acc.timers = {}
  THEN [b EXCEPT !.pc = "returned", !.all_failed = TRUE, !.ret = PyNone]
  ELSE [b EXCEPT !.pc = "returned",
                 !.timers = [s \in DOMAIN acc.timers |->
                               Quotient(acc.timers[s], acc.counts[s])],
                 !.ret = PyList(b.value)]

\* pool.map and map hand back the result list when every task is done, and
\* raise when a call of Process_Image raised.
EndMap(b) == IF b.success THEN FinishList(b) ELSE [b EXCEPT !.pc = "raised"]

\* ------------------------------------------------- single-image runs


\* No configuration call made yet.
NoCall == [op |-> "none", raised |-> FALSE]

\* Registry updates of the single-image runs: step functions for the names
\* A, B, branch 1 and branch 2 (X stays unregistered).
TestMethods ==
  {[n \in {"A", "B", "branch 1", "branch 2"} |->
      CASE n = "A" -> a [] n = "B" -> b [] n = "branch 1" -> b1 [] OTHER -> b2] :
     a \in {"Step_A", "Step_Hard", "Step_Raise", "Step_None", "Step_BadRes",
            "Branch_Alt"},
     b \in {"Step_A", "Step_B"},
     b1 \in {"Branch_None", "Branch_Alt", "Branch_Once", "Branch_Nowhere",
             "Branch_Raise", "Branch_Head", "Step_A"},
     b2 \in {"Branch_None", "Branch_Head"}}

\* Sequence graphs of the single-image runs.
TestGraphs ==
  {[k \in {"head"} |-> <<"A", "B">>],
   [k \in {"head"} |-> <<>>],
   [k \in {"head"} |-> <<"A", "A">>],
   [k \in {"head"} |-> <<"B", "X">>],
   [k \in {"head", "alt"} |-> IF k = "head" THEN <<"branch 1">> ELSE <<>>],
   [k \in {"head", "alt"} |->
      IF k = "head" THEN <<"A", "branch 1", "B">> ELSE <<"B", "branch 2">>]}

\* The name options of the single-image runs: none, a str, and a value that
\* is no str.
NameArgs ==
  {EmptyDict,
   [k \in {"name"} |-> PyStr(<<"m", "y">>)],
   [k \in {"name"} |-> PyInt(1)]}

\* A pipeline configured by UpdatePipeline, and Process_Image called on one
\* image file.
InitImage ==
  /\ \E m \in TestMethods, g \in TestGraphs :
       LET p == UpdatePipeline(Constructed, PyDict(m), PyDict(g)) IN
       /\ pipeline_methods = p.methods
       /\ pipeline_steps = p.steps
  /\ call = NoCall
  /\ \E f \in ImageFiles, o \in NameArgs :
       job = CalledJob(DictUpdate([k \in {"image_file"} |-> PyStr(f)], o))
  /\ batch = IdleBatch

\* Process_Image, lines 108-140.
ImageStart ==
  /\ job.pc = "called"
  /\ job' = StartImage(job)
  /\ UNCHANGED <<pipeline_methods, pipeline_steps, call, batch>>

\* Process_Image, lines 141-165: one turn of the while loop.
ImageTick ==
  /\ CanTick(job)
  /\ \E el \in Elapsed : job' = Tick(job, el)
  /\ UNCHANGED <<pipeline_methods, pipeline_steps, call, batch>>

NextImage == ImageStart \/ ImageTick

SpecImage == InitImage /\ [][NextImage]_vars

\* ------------------------------------------------------------- batch runs

\* Pipelines of the batch runs, as the pair of arguments of UpdatePipeline.
\* head = B, A: A raises on a hard frame, after B has run.
FailingStepPipeline ==
  [m |-> [n \in {"A", "B"} |-> IF n = "A" THEN "Step_Hard" ELSE "Step_A"],
   g |-> [k \in {"head"} |-> <<"B", "A">>]]

\* A hard frame branches to the empty sequence alt and succeeds with no timer;
\* any other frame runs A.
EmptyTimingPipeline ==
  [m |-> [n \in {"A", "branch 1"} |-> IF n = "A" THEN "Step_A" ELSE "Branch_Hard"],
   g |-> [k \in {"head", "alt"} |-> IF k = "head" THEN <<"branch 1", "A">> ELSE <<>>]]

\* A raises on a hard frame; any other frame is sent to a sequence name that
\* does not exist.
LostBranchPipeline ==
  [m |-> [n \in {"A", "branch 1"} |->
            IF n = "A" THEN "Step_Hard" ELSE "Branch_Nowhere"],
   g |-> [k \in {"head"} |-> <<"A", "branch 1">>]]

\* A hard frame branches to alt and is sent back to alt for ever; any other
\* frame succeeds with no timer.
EndlessPipeline ==
  [m |-> [n \in {"branch 1", "branch 2"} |->
            IF n = "branch 1" THEN "Branch_Hard" ELSE "Branch_Alt"],
   g |-> [k \in {"head", "alt"} |->
            IF k = "head" THEN <<"branch 1">> ELSE <<"branch 2">>]]

BatchPipelines ==
  {FailingStepPipeline, EmptyTimingPipeline, LostBranchPipeline, EndlessPipeline}

\* Image files of the short image lists.
BatchFiles == {"good", "hard"}

\* The image lists of the batch runs: every list of 1 to MaxImages files.
ImageLists == UNION {[1..n -> BatchFiles] : n \in 1..MaxImages}

\* An image list of 101 files, the shortest that pool.map takes in tasks of 5:
\* a good frame ends the first task, hard frames start the second task and
\* make up the last one, and every other file is unreadable.
LongList ==
  [i \in 1..101 |->
     IF i = 5 THEN "good" ELSE IF i \in {6, 101} THEN "hard" ELSE "unreadable"]

\* An image list of 101 files of which one, the first of the second task of
\* 5, is a hard frame; every other file is unreadable.
HangList == [i \in 1..101 |-> IF i = 6 THEN "hard" ELSE "unreadable"]

\* The batches: every pipeline on every short image list with every n_procs
\* up to MaxProcs, and the long list with two processes.
Batches ==
  {[c |-> c, l |-> l, np |-> np] :
     c \in BatchPipelines, l \in ImageLists, np \in 1..MaxProcs}
    \cup {[c |-> FailingStepPipeline, l |-> LongList, np |-> 2]}

\* The batches with steps that may never return, run on a pool: the pipeline
\* that sends a hard frame round for ever, on every short image list and on
\* the long list with one hard frame, with every n_procs from 2 to MaxProcs.
PoolBatches ==
  {[c |-> EndlessPipeline, l |-> l, np |-> np] :
     l \in ImageLists \cup {HangList}, np \in 2..MaxProcs}

\* The options of a batch on the image list l with np processes: the image
\* list, n_procs, a scalar option shared by the images, and a list-valued
\* option with one entry per image.
BatchOptions(l, np) ==
  [k \in {"image_file", "n_procs", "ap_pixscale", "ap_zeropoint"} |->
     CASE k = "image_file" -> PyList([i \in 1..Len(l) |-> PyStr(l[i])])
       [] k = "n_procs" -> PyInt(np)
       [] k = "ap_pixscale" -> PyInt(1)
       [] OTHER -> PyList([i \in 1..Len(l) |-> PyInt(20 + i)])]

\* A pipeline configured by UpdatePipeline, and Process_List called on an
\* image list with n_procs processes.
InitList ==
  /\ \E x \in Batches :
       LET p == UpdatePipeline(Constructed, PyDict(x.c.m), PyDict(x.c.g)) IN
       /\ pipeline_methods = p.methods
       /\ pipeline_steps = p.steps
       /\ batch = CalledBatch(BatchOptions(x.l, x.np))
  /\ call = NoCall
  /\ job = IdleJob

\* Process_List, lines 172-197 up to the start of the map.
ListStart ==
  /\ batch.pc = "called"
  /\ batch' = StartList(batch)
  /\ UNCHANGED <<pipeline_methods, pipeline_steps, call, job>>

\* A pool worker without a task takes the next one.
PoolTake ==
  /\ batch.pc = "map"
  /\ batch.mode = "pool"
  /\ batch.next <= NumChunks(batch.n, batch.chunksize)
  /\ \E w \in DOMAIN batch.workers :
       /\ batch.workers[w].st = "idle"
       /\ batch' = TakeTask(batch, w)
  /\ UNCHANGED <<pipeline_methods, pipeline_steps, call, job>>

\* A pool worker runs Process_Image on the next item of its task: on a copy
\* of the item's dict object, which the map sent to the worker's process.
PoolRun ==
  /\ batch.pc = "map"
  /\ batch.mode = "pool"
  /\ \E w \in DOMAIN batch.workers :
       /\ batch.workers[w].st = "busy"
       /\ LET items == ChunkItems(batch.workers[w].chunk, batch.n, batch.chunksize)
              pos == items[Len(batch.workers[w].out) + 1]
          IN \E f \in Runs(CalledJob(batch.held[pos])) :
               batch' = WorkerRan(batch, w, f)
  /\ UNCHANGED <<pipeline_methods, pipeline_steps, call, job>>

\* SeqRun with the engine taking the step names off the head list.
SeqRun_PopsHead ==
  /\ batch.pc = "map"
  /\ batch.mode = "seq"
  /\ ~batch.blocked
  /\ batch.next <= batch.n
  /\ \E f \in Runs(CalledJob(batch.held[batch.next])) :
       batch' = SeqRan(batch, f)
  /\ pipeline_steps' = [pipeline_steps EXCEPT !["head"] = <<>>]
  /\ UNCHANGED <<pipeline_methods, call, job>>

\* The sequential map runs Process_Image on the next item.
SeqRun ==
  /\ batch.pc = "map"
  /\ batch.mode = "seq"
  /\ ~batch.blocked
  /\ batch.next <= batch.n
  /\ \E f \in Runs(CalledJob(batch.held[batch.next])) :
       batch' = SeqRan(batch, f)
  /\ UNCHANGED <<pipeline_methods, pipeline_steps, call, job>>

\* Process_List, lines 193-221: the map ends, and what follows it.
ListFinish ==
  /\ batch.pc = "map"
  /\ batch.left = 0
  /\ batch' = EndMap(batch)
  /\ UNCHANGED <<pipeline_methods, pipeline_steps, call, job>>

NextList == ListStart \/ PoolTake \/ PoolRun \/ SeqRun \/ ListFinish

SpecList == InitList /\ [][NextList]_vars

\* Process_List called on a pool batch.
InitPool ==
  /\ \E x \in PoolBatches :
       LET p == UpdatePipeline(Constructed, PyDict(x.c.m), PyDict(x.c.g)) IN
       /\ pipeline_methods = p.methods
       /\ pipeline_steps = p.steps
       /\ batch = CalledBatch(BatchOptions(x.l, x.np))
  /\ call = NoCall
  /\ job = IdleJob

NextPool == ListStart \/ PoolTake \/ PoolRun \/ ListFinish

\* The pool runs with progress: the pool's workers and the map go on as long
\* as there is something they can do.
SpecPool == InitPool /\ [][NextPool]_vars /\ WF_vars(NextPool)

\* ------------------------------------------------------- configuration calls

\* new_pipeline_methods arguments of the configuration calls.
MethodArgs ==
  {PyNone,
   PyDict(EmptyDict),
   PyDict([n \in {"psf"} |-> "User_PSF"]),
   PyDict([n \in {"center", "branch 1"} |->
             IF n = "center" THEN "User_Center" ELSE "Branch_Alt"])}

\* new_pipeline_steps arguments of the configuration calls: lists, and dicts
\* with and without the key 'head'.
StepArgs ==
  {PyNone,
   PyList(<<>>),
   PyList(<<"background", "writeprof">>),
   PyDict(EmptyDict),
   PyDict([k \in {"alt"} |-> <<"psf">>]),
   PyDict([k \in {"head", "alt"} |->
             IF k = "head" THEN <<"background", "branch 1">> ELSE <<"psf">>])}

\* The configuration modules: a process_mode, and the two optional attributes.
ConfigModules ==
  [process_mode : ProcessModes,
   new_pipeline_methods : {Absent} \cup MethodArgs,
   new_pipeline_steps : {Absent} \cup StepArgs]

\* The pipeline object after __init__.
InitConfig ==
  /\ pipeline_methods = Constructed.methods
  /\ pipeline_steps = Constructed.steps
  /\ call = NoCall
  /\ job = IdleJob
  /\ batch = IdleBatch

\* A call UpdatePipeline(m, s).  call keeps the arguments and whether the call
\* raised.
UpdatePipelineCall ==
  /\ \E m \in MethodArgs, s \in StepArgs :
       LET p == UpdatePipeline([methods |-> pipeline_methods,
                                steps |-> pipeline_steps], m, s) IN
       /\ pipeline_methods' = p.methods
       /\ pipeline_steps' = p.steps
       /\ call' = [op |-> "UpdatePipeline", raised |-> p.raised,
                   new_pipeline_methods |-> m, new_pipeline_steps |-> s]
  /\ UNCHANGED <<job, batch>>

\* A call Process_ConfigFile(config_file) that imports the module c, up to the
\* call of the function the mode selects.  call keeps the module and that
\* function.
ProcessConfigFileCall ==
  /\ \E c \in ConfigModules :
       LET p == ConfigurePipeline([methods |-> pipeline_methods,
                                   steps |-> pipeline_steps], c) IN
       /\ pipeline_methods' = p.methods
       /\ pipeline_steps' = p.steps
       /\ call' = [op |-> "Process_ConfigFile", raised |-> FALSE, config |-> c,
                   runs |-> Dispatch(c.process_mode)]
  /\ UNCHANGED <<job, batch>>

NextConfig == UpdatePipelineCall \/ ProcessConfigFileCall

SpecConfig == InitConfig /\ [][NextConfig]_vars

\* ------------------------------------------------ properties: Process_Image

\* The run stands at a registered step whose function is about to be called.
AtCall(j) == AtStep(j) /\ StepName(j) \in DOMAIN pipeline_methods

\* What that call hands back.
CallValue(j) ==
  StepCall(pipeline_methods[StepName(j)], j.dat, j.results, j.options)

\* C3 (as claimed): Process_Image never lets a fault escape as a raised
\* exception: whatever the registry, the graph and the steps do, a run never
\* ends with an exception leaving Process_Image.
C3_NoFaultEscapes == job.pc # "raised"

\* C4: when the call of a step function (Regular or Branch) raises, the run
\* ends in that very turn with the value 1, the timers and results are the
\* ones the run had before the call, and a run that has returned calls no
\* further step.
C4_RaiseAborts ==
  [][/\ ((AtCall(job) /\ CallValue(job).tag = "raise")
          => (/\ job'.pc = "returned"
              /\ EqualsOne(job'.ret)
              /\ job'.timers = job.timers
              /\ job'.results = job.results
              /\ job'.invoked = Append(job.invoked, StepName(job))))
      /\ ((job.pc = "returned") => (job'.invoked = job.invoked))]_vars

\* C4 witness: head = A, B with A's function raising: the run has returned 1
\* after the one call of A, with no timer and no result.
C4_Witness ==
  /\ job.pc = "returned"
  /\ EqualsOne(job.ret)
  /\ pipeline_steps["head"] = <<"A", "B">>
  /\ pipeline_methods["A"] = "Step_Raise"
  /\ job.invoked = <<"A">>
  /\ DOMAIN job.timers = {}
  /\ DOMAIN job.results = {}

\* The Regular step names among the names called.
RegularCalls(j) == SelectSeq(j.invoked, LAMBDA n : ~HasBranch(n))

\* C7 (as claimed): in a run that completes without fault the number of
\* entries of the returned timers equals the number of Regular step calls made,
\* and no Branch step name is a key.
C7_TimingCountsCalls ==
  (job.pc = "returned" /\ job.ret.tag = "dict")
    => /\ Cardinality(DOMAIN job.ret.v) = Len(RegularCalls(job))
       /\ \A n \in DOMAIN job.ret.v : ~HasBranch(n)

\* C7 (amended): in a run that completes without fault the keys of the
\* returned timers are exactly the distinct names of the Regular steps called,
\* so their number is the number of distinct names, and no Branch step name is
\* a key.
C7_TimingKeysAreRegularNames ==
  (job.pc = "returned" /\ job.ret.tag = "dict")
    => /\ DOMAIN job.ret.v = Range(RegularCalls(job))
       /\ Cardinality(DOMAIN job.ret.v) = Cardinality(Range(RegularCalls(job)))
       /\ job.completed = RegularCalls(job)
       /\ \A n \in DOMAIN job.ret.v : ~HasBranch(n)

\* C7 witness: a run that completed after a branch redirect made it call the
\* same Regular step name more than once.
C7_Witness ==
  /\ job.pc = "returned"
  /\ job.ret.tag = "dict"
  /\ \E i \in 1..Len(job.invoked) : HasBranch(job.invoked[i])
  /\ Len(RegularCalls(job)) > Cardinality(DOMAIN job.ret.v)

\* C8: a Branch step at (seq, i) whose function returns the name of a known
\* sequence s moves the run to (s, 0); one whose function returns None moves
\* it to (seq, i + 1).
C8_BranchMoves ==
  [][(AtCall(job) /\ HasBranch(StepName(job)))
       => /\ ((CallValue(job).tag = "str"
                 /\ CallValue(job).v \in DOMAIN pipeline_steps)
               => (/\ job'.pc = "loop"
                   /\ job'.key = CallValue(job).v
                   /\ job'.step = 0))
          /\ ((CallValue(job).tag = "none")
               => (/\ job'.pc = "loop"
                   /\ job'.key = job.key
                   /\ job'.step = job.step + 1))]_vars

\* C8 witness: the run stands at (alt, 0) right after the Branch step at
\* (head, 1) sent it there.
C8_Witness ==
  /\ job.pc = "loop"
  /\ job.key = "alt"
  /\ job.step = 0
  /\ job.invoked = <<"A", "branch 1">>
  /\ pipeline_methods["branch 1"] = "Branch_Alt"

\* ------------------------------------------------- properties: Process_List

\* The image list of the batch.
ImageList(b) == b.options["image_file"].v

\* The positions whose call of Process_Image returned timers that hold step
\* name x.
SuccessesWith(b, x) ==
  {i \in 1..b.n : b.ran[i].tag = "ran" /\ b.ran[i].ret.tag = "dict"
                  /\ x \in DOMAIN b.ran[i].ret.v}

\* The sum of the times of step name x over the positions in S.
RECURSIVE TimeSum(_, _, _)
TimeSum(b, x, S) ==
  IF S = {} THEN 0
  ELSE LET i == CHOOSE i \in S : TRUE IN
       b.ran[i].ret.v[x] + TimeSum(b, x, S \ {i})

\* Every step name of the model's graphs.
StepNames == {"A", "B", "X", "branch 1", "branch 2"}

\* C1: whenever Process_List returns a result list, entry i of the list is what
\* the call of Process_Image on image i returned, in the sequential map and in
\* the pool alike, in whatever order the tasks finished.
C1_ResultsInInputOrder ==
  (batch.pc = "returned" /\ batch.ret.tag = "list")
    => /\ Len(batch.ret.v) = Len(ImageList(batch))
       /\ \A i \in 1..Len(ImageList(batch)) :
            /\ batch.ran[i].tag = "ran"
            /\ batch.ran[i].file = ImageList(batch)[i]
            /\ batch.ret.v[i] = batch.ran[i].ret

\* C1 witness: the pool returned the list of the 101-image batch, cut into
\* tasks of 5, after the result of some task had reached the map later than
\* the result of a later task; the job of image 5 succeeded and the job of
\* image 6, in the next task, failed.
C1_Witness ==
  /\ batch.pc = "returned"
  /\ batch.ret.tag = "list"
  /\ batch.mode = "pool"
  /\ batch.chunksize = 5
  /\ batch.overtaken
  /\ batch.ret.v[5].tag = "dict"
  /\ EqualsOne(batch.ret.v[6])

\* C2 (as claimed): Process_List returns a list of exactly N outcomes for
\* every batch of N images, also when every job fails.
C2_ReturnsNOutcomes ==
  (batch.pc = "returned")
    => /\ batch.ret.tag = "list"
       /\ Len(batch.ret.v) = Len(ImageList(batch))

\* C5 (as claimed): Process_List reports 'All images failed' exactly when
\* every job of the batch gave the failure value 1.
C5_AllFailedIffEveryJobFailed ==
  (batch.pc = "returned")
    => (batch.all_failed <=> \A i \in 1..batch.n : EqualsOne(batch.ran[i].ret))

\* C6: the aggregate for step name x is the sum of the times of x over exactly
\* the successful jobs whose timers hold x, divided by the number of those
\* jobs; a failed job adds to no mean; a name in no successful job's timers
\* has no aggregate.
C6_MeanOverSuccesses ==
  (batch.pc = "returned")
    => \A x \in StepNames \cup DOMAIN batch.timers :
         LET S == SuccessesWith(batch, x) IN
         IF S = {} THEN x \notin DOMAIN batch.timers
         ELSE /\ x \in DOMAIN batch.timers
              /\ batch.timers[x].num = TimeSum(batch, x, S)
              /\ batch.timers[x].den = Cardinality(S)

\* C6 witness: three images; the job of one failed after it had completed a
\* step, the other two succeeded with different times for step B, and the
\* aggregate was taken.
C6_Witness ==
  /\ batch.pc = "returned"
  /\ batch.n = 3
  /\ "B" \in DOMAIN batch.timers
  /\ \E i, j, k \in 1..batch.n :
       /\ EqualsOne(batch.ran[i].ret) /\ batch.ran[i].completed = <<"B">>
       /\ j # k
       /\ batch.ran[j].ret.tag = "dict" /\ batch.ran[k].ret.tag = "dict"
       /\ batch.ran[j].ret.v["B"] # batch.ran[k].ret.v["B"]

\* ----------------------------------------- properties: configuration calls

\* The step made is a call UpdatePipeline whose new_pipeline_steps is a dict
\* without the key 'head'.
HeadlessUpdate ==
  /\ call'.op = "UpdatePipeline"
  /\ call'.new_pipeline_steps.tag = "dict"
  /\ "head" \notin DOMAIN call'.new_pipeline_steps.v

\* C9 (as claimed): UpdatePipeline with any mapping that lacks 'head', the
\* empty mapping included, fails with an error and leaves the sequence graph
\* as it was.
C9_HeadlessAlwaysFails ==
  [][HeadlessUpdate => (call'.raised /\ pipeline_steps' = pipeline_steps)]_vars

\* C9 (amended): UpdatePipeline with a non-empty mapping that lacks 'head'
\* fails with an error and leaves the sequence graph as it was; with the empty
\* mapping it raises no error and leaves the sequence graph as it was.
C9_HeadlessFailsUnlessEmpty ==
  [][HeadlessUpdate
       => (/\ pipeline_steps' = pipeline_steps
           /\ call'.raised <=> (DOMAIN call'.new_pipeline_steps.v # {}))]_vars

\* C9 witness: a call with a mapping that has only the key alt raised, and the
\* graph a former call installed is still there.
C9_Witness ==
  /\ call.op = "UpdatePipeline"
  /\ call.raised
  /\ call.new_pipeline_steps.tag = "dict"
  /\ DOMAIN call.new_pipeline_steps.v = {"alt"}
  /\ pipeline_steps # DefaultSteps
  /\ "head" \in DOMAIN pipeline_steps

\* Process_ConfigFile was called in a forced mode with a configuration module
\* that defines neither new_pipeline_methods nor new_pipeline_steps.
ForcedNoOverrides ==
  /\ call.op = "Process_ConfigFile"
  /\ call.config.process_mode \in ForcedModes
  /\ call.config.new_pipeline_methods = Absent
  /\ call.config.new_pipeline_steps = Absent

\* C10 (as claimed): after forced-mode selection with no user overrides the
\* head sequence is exactly background, psf, center forced, isophotefit
\* forced, isophoteextract forced, writeprof.
C10_ForcedHeadAsSpecified ==
  ForcedNoOverrides
    => pipeline_steps["head"] =
         <<"background", "psf", "center forced", "isophotefit forced",
           "isophoteextract forced", "writeprof">>

\* C10 (amended): after forced-mode selection with no user overrides the head
\* sequence is exactly background, psf, center forced, isophoteinit,
\* isophotefit forced, isophoteextract forced, writeprof: the fit check is
\* left out, the isophote initialization is kept.
C10_ForcedHeadInstalled ==
  ForcedNoOverrides
    => /\ pipeline_steps["head"] =
            <<"background", "psf", "center forced", "isophoteinit",
              "isophotefit forced", "isophoteextract forced", "writeprof">>
       /\ "checkfit" \notin Range(pipeline_steps["head"])

\* C10 witness: Process_ConfigFile ran in mode 'forced image list' with no
\* overrides on a pipeline whose head a former call had replaced.
C10_Witness ==
  /\ ForcedNoOverrides
  /\ call.config.process_mode = "forced image list"
  /\ call.runs = "Process_List"
  /\ "alt" \in DOMAIN pipeline_steps

\* Process_ConfigFile was called in a standard mode ('image' or 'image list')
\* with a configuration module that defines neither new_pipeline_methods nor
\* new_pipeline_steps.
StandardNoOverrides ==
  /\ call.op = "Process_ConfigFile"
  /\ call.config.process_mode \in {"image", "image list"}
  /\ call.config.new_pipeline_methods = Absent
  /\ call.config.new_pipeline_steps = Absent

\* The pipeline object is as a forced-mode Process_ConfigFile call without
\* overrides leaves a newly constructed one.
AfterForcedRun ==
  /\ ForcedNoOverrides
  /\ pipeline_methods = DefaultMethods
  /\ pipeline_steps = [k \in {"head"} |-> ForcedHead]

\* C11 (as claimed): in standard mode with no user overrides the head sequence
\* a run uses is exactly background, psf, center, isophoteinit, isophotefit,
\* isophoteextract, checkfit, writeprof; here for the standard-mode call that
\* follows a forced-mode call on the same pipeline object, no user override
\* having been given to either.
C11_StandardHeadAsSpecified ==
  [][(AfterForcedRun /\ StandardNoOverrides')
       => pipeline_steps'["head"] =
            <<"background", "psf", "center", "isophoteinit", "isophotefit",
              "isophoteextract", "checkfit", "writeprof">>]_vars

\* The names of the registry update a configuration module supplies.
UserNames(c) ==
  IF c.new_pipeline_methods.tag = "dict" THEN DOMAIN c.new_pipeline_methods.v
  ELSE {}

\* The sequence graph the mode of module c selects on the graph steps: the
\* forced head list in a forced mode, the head as it is otherwise.
ModeGraph(steps, c) ==
  [k \in DOMAIN steps |->
     IF k = "head" /\ c.process_mode \in ForcedModes
     THEN <<"background", "psf", "center forced", "isophoteinit",
            "isophotefit forced", "isophoteextract forced", "writeprof">>
     ELSE steps[k]]

\* After a call Process_ConfigFile every name of the user's registry update
\* maps to the user's function and every other name is as before the call.
UserMethodsWin ==
  LET c == call'.config IN
  /\ DOMAIN pipeline_methods' = (DOMAIN pipeline_methods) \cup UserNames(c)
  /\ \A n \in DOMAIN pipeline_methods' :
       pipeline_methods'[n] = IF n \in UserNames(c)
                              THEN c.new_pipeline_methods.v[n]
                              ELSE pipeline_methods[n]

C13_PerImageOptions ==
  (/\ batch.pc \in {"map", "returned", "raised"}
   /\ batch.options["image_file"].tag = "list"
   /\ \A k \in DOMAIN batch.options :
        batch.options[k].tag = "list"
          => Len(batch.options[k].v) = Len(ImageList(batch)))
    => /\ Len(batch.use_options) = Len(ImageList(batch))
       /\ \A i \in 1..Len(ImageList(batch)) :
            /\ DOMAIN batch.use_options[i] = DOMAIN batch.options
            /\ \A k \in DOMAIN batch.options :
                 batch.use_options[i][k] =
                   IF batch.options[k].tag = "list" THEN batch.options[k].v[i]
                   ELSE batch.options[k]

\* C13 witness: a batch of three images in its map: image 2 has its own file,
\* entry 2 of the list-valued option and the shared scalars.
C13_Witness ==
  /\ batch.pc = "map"
  /\ batch.n = 3
  /\ ImageList(batch) = <<PyStr("good"), PyStr("hard"), PyStr("good")>>
  /\ batch.use_options[2]["image_file"] = PyStr("hard")
  /\ batch.use_options[2]["ap_zeropoint"] = PyInt(22)
  /\ batch.use_options[3]["ap_zeropoint"] = PyInt(23)
  /\ batch.use_options[2]["ap_pixscale"] = batch.options["ap_pixscale"]
  /\ batch.use_options[2]["n_procs"] = batch.options["n_procs"]

\* ------------------------------- properties: the start of Process_Image

\* The image file Process_Image was called on.
JobFile == job.options["image_file"].v

\* C14: when the image cannot be read, or the frame read is None, or the
\* centred window of 20 x 20 pixels is all zero (as in a frame with a block of
\* 40 x 40 zeros at its centre), the run returns 1 from the checks made before
\* the loop, and no step function of any sequence is ever called for the job.
C14_NoStepOnBadImage ==
  (job.pc # "idle" /\ JobFile \in {"unreadable", "null", "zero"})
    => /\ job.pc \in {"called", "returned"}
       /\ job.pc = "returned" => EqualsOne(job.ret)
       /\ job.invoked = <<>>
       /\ job.nticks = 0

\* C14 witness: the frame with the block of zeros at its centre was refused
\* by a pipeline whose head starts with a registered step.
C14_Witness ==
  /\ job.pc = "returned"
  /\ JobFile = "zero"
  /\ EqualsOne(job.ret)
  /\ job.invoked = <<>>
  /\ pipeline_steps["head"] = <<"A", "B">>
  /\ pipeline_methods["A"] = "Step_A"

\* The name the claim gives a file name: what follows the last '/', up to the
\* first '.' in it.
ClaimedName(file) ==
  LET base == SubSeq(file, RFind(file, "/") + 2, Len(file))
      dot == Find(base, ".", 0)
  IN IF dot = -1 THEN base ELSE SubSeq(base, 1, dot)

\* C15 (as claimed): the job name is the name option when a str is given;
\* otherwise it is the file name without its directory part (everything up to
\* and including the last '/') and without its extension (the first '.' and
\* what follows), whether or not the file name has a directory or an extension.
C15_NameAsSpecified ==
  [][(job.pc = "called" /\ job'.pc # "called")
       => job'.options["name"] =
            IF HasName(job.options) THEN job.options["name"]
            ELSE PyStr(ClaimedName(Chars(JobFile)))]_vars

\* -------------------------------------------- properties: UpdatePipeline

\* C16: UpdatePipeline with a registry update M: afterwards every name of M
\* maps to M's function, every other name has the function it had, no name is
\* gone, and, no sequences being given, the sequence graph is as it was.
C16_MethodsMerged ==
  [][(call'.op = "UpdatePipeline" /\ call'.new_pipeline_methods.tag = "dict")
       => LET M == call'.new_pipeline_methods.v IN
          /\ \A n \in DOMAIN M : pipeline_methods'[n] = M[n]
          /\ \A n \in (DOMAIN pipeline_methods) \ DOMAIN M :
               /\ n \in DOMAIN pipeline_methods'
               /\ pipeline_methods'[n] = pipeline_methods[n]
          /\ DOMAIN pipeline_methods' = (DOMAIN pipeline_methods) \cup DOMAIN M
          /\ call'.new_pipeline_steps = PyNone
               => pipeline_steps' = pipeline_steps]_vars

\* C16 witness: an update of center and branch 1 alone, on a pipeline whose
\* psf and sequences earlier calls had changed: center is replaced, branch 1
\* added, psf and the sequences kept.
C16_Witness ==
  /\ call.op = "UpdatePipeline"
  /\ call.new_pipeline_methods.tag = "dict"
  /\ DOMAIN call.new_pipeline_methods.v = {"center", "branch 1"}
  /\ call.new_pipeline_steps = PyNone
  /\ pipeline_methods["center"] = "User_Center"
  /\ pipeline_methods["branch 1"] = "Branch_Alt"
  /\ pipeline_methods["psf"] = "User_PSF"
  /\ pipeline_methods["background"] = "Background_Mode"
  /\ "alt" \in DOMAIN pipeline_steps

\* The step made is a call UpdatePipeline with sequences only.
StepsOnlyUpdate ==
  call'.op = "UpdatePipeline" /\ call'.new_pipeline_methods = PyNone

\* Every sequence but head, and the registry, are as before the step.
OnlyHeadMayChange ==
  /\ pipeline_methods' = pipeline_methods
  /\ DOMAIN pipeline_steps' = DOMAIN pipeline_steps
  /\ \A k \in DOMAIN pipeline_steps \ {"head"} :
       pipeline_steps'[k] = pipeline_steps[k]

\* C17 (as claimed): UpdatePipeline with a list replaces the head sequence by
\* the list and nothing else: every other sequence and the registry are
\* unchanged; with a mapping that has the key 'head' it replaces the whole
\* sequence graph by the mapping.
C17_ListReplacesHead ==
  [][StepsOnlyUpdate
       => LET s == call'.new_pipeline_steps IN
          /\ s.tag = "list"
               => pipeline_steps'["head"] = s.v /\ OnlyHeadMayChange
          /\ (s.tag = "dict" /\ "head" \in DOMAIN s.v)
               => pipeline_steps' = s.v /\ pipeline_methods' = pipeline_methods]_vars

\* C17 (amended): as claimed for a list that is not empty; with the empty list
\* the head sequence too is unchanged.
C17_NonEmptyListReplacesHead ==
  [][StepsOnlyUpdate
       => LET s == call'.new_pipeline_steps IN
          /\ s.tag = "list"
               => /\ pipeline_steps'["head"] =
                       IF Len(s.v) > 0 THEN s.v ELSE pipeline_steps["head"]
                  /\ OnlyHeadMayChange
          /\ (s.tag = "dict" /\ "head" \in DOMAIN s.v)
               => pipeline_steps' = s.v /\ pipeline_methods' = pipeline_methods]_vars

\* C17 witness: a list was installed on a graph with a second sequence: the
\* head is the list, the second sequence is still there.
C17_Witness ==
  /\ call.op = "UpdatePipeline"
  /\ call.new_pipeline_methods = PyNone
  /\ call.new_pipeline_steps = PyList(<<"background", "writeprof">>)
  /\ pipeline_steps["head"] = <<"background", "writeprof">>
  /\ DOMAIN pipeline_steps = {"head", "alt"}
  /\ pipeline_steps["alt"] = <<"psf">>

\* The registry and graph of a pipeline record.
Strip(q) == [methods |-> q.methods, steps |-> q.steps]

\* The pipeline object as it is.
Current == [methods |-> pipeline_methods, steps |-> pipeline_steps]

\* C18: on every pipeline, an update applied twice leaves what it leaves
\* applied once; a registry update and a sequence update leave the same
\* registry and graph in either order; and an update with empty or absent
\* arguments changes nothing and raises nothing.
C18_IdempotentIndependent ==
  /\ \A m \in MethodArgs, s \in StepArgs :
       LET once == Strip(UpdatePipeline(Current, m, s)) IN
       Strip(UpdatePipeline(once, m, s)) = once
  /\ \A m \in MethodArgs, s \in StepArgs :
       Strip(UpdatePipeline(Strip(UpdatePipeline(Current, m, PyNone)), PyNone, s))
         = Strip(UpdatePipeline(Strip(UpdatePipeline(Current, PyNone, s)), m, PyNone))
  /\ \A m \in {PyNone, PyDict(EmptyDict)} :
       \A s \in {PyNone, PyList(<<>>), PyDict(EmptyDict)} :
         /\ Strip(UpdatePipeline(Current, m, s)) = Current
         /\ ~UpdatePipeline(Current, m, s).raised

\* C18 witness: a call with a registry update and a mapping of sequences has
\* changed both the registry and the graph of the constructed pipeline.
C18_Witness ==
  /\ call.op = "UpdatePipeline"
  /\ call.new_pipeline_methods = PyDict([n \in {"psf"} |-> "User_PSF"])
  /\ call.new_pipeline_steps.tag = "dict"
  /\ ~call.raised
  /\ Current = Strip(UpdatePipeline(Constructed, call.new_pipeline_methods,
                                    call.new_pipeline_steps))
  /\ pipeline_methods # DefaultMethods
  /\ pipeline_steps # DefaultSteps

\* C19: in every state reached from construction by calls of UpdatePipeline,
\* failing ones included, and of Process_ConfigFile, the sequence graph has
\* the key 'head'.
C19_HeadAlwaysThere == "head" \in DOMAIN pipeline_steps

\* C19 witness: a forced-mode Process_ConfigFile whose module gave a mapping
\* without 'head', on a graph an earlier call had replaced.
C19_Witness ==
  /\ call.op = "Process_ConfigFile"
  /\ call.config.process_mode \in ForcedModes
  /\ call.config.new_pipeline_steps = PyDict([k \in {"alt"} |-> <<"psf">>])
  /\ DOMAIN pipeline_steps = {"head", "alt"}
  /\ pipeline_steps["head"] = ForcedHead

\* ------------------------------------------ properties: blocked workers

\* Process_Image on these options never returns.
Hangs(options) == \E f \in Runs(CalledJob(options)) : f.pc = "loop"

\* The images of the batch on which Process_Image never returns.
HangingJobs(b) == {i \in 1..b.n : Hangs(b.use_options[i])}

\* C20 (as claimed): in a batch run on a pool (n_procs > 1) in which one job
\* never returns, every other job of the batch is eventually run to its
\* outcome, whatever the length of the image list, lists of more than 100
\* images (tasks of 5) included.
C20_SiblingsStillRun ==
  (batch.pc = "map" /\ batch.mode = "pool"
     /\ Cardinality(HangingJobs(batch)) = 1)
    ~> (\A i \in 1..batch.n :
          i \in HangingJobs(batch) \/ batch.ran[i].tag = "ran")

\* ------------------------------------------ properties: the loop's turns

\* C21: when a Regular step returns a frame and partial results, the results
\* are the former results overwritten key by key by the partial results (every
\* other key kept, none removed), the frame is the one the step returned, the
\* timers have an entry under the step's name and are otherwise as before, and
\* the index is one further in the same sequence.
C21_RegularStepEffect ==
  [][(/\ AtCall(job)
      /\ StepName(job) \notin BranchNames
      /\ CallValue(job).tag = "tuple"
      /\ CallValue(job).res.tag = "dict")
       => LET name == StepName(job)
              out == CallValue(job)
              res == out.res.v
          IN /\ job'.pc = "loop"
             /\ DOMAIN job'.results = (DOMAIN job.results) \cup DOMAIN res
             /\ \A k \in DOMAIN job'.results :
                  job'.results[k] = IF k \in DOMAIN res THEN res[k]
                                    ELSE job.results[k]
             /\ job'.dat = out.dat
             /\ DOMAIN job'.timers = (DOMAIN job.timers) \cup {name}
             /\ job'.timers[name] \in Elapsed
             /\ \A k \in DOMAIN job.timers \ {name} :
                  job'.timers[k] = job.timers[k]
             /\ job'.key = job.key
             /\ job'.step = job.step + 1]_vars

\* C21 witness: after A and B of head = A, B the key a that A wrote holds B's
\* value, the key b is new, the frame is the one B returned, and both steps
\* are timed.
C21_Witness ==
  /\ job.pc = "loop"
  /\ pipeline_steps["head"] = <<"A", "B">>
  /\ pipeline_methods["A"] = "Step_A"
  /\ pipeline_methods["B"] = "Step_B"
  /\ job.completed = <<"A", "B">>
  /\ job.results = [k \in {"a", "b"} |-> 2]
  /\ job.dat = "clean"
  /\ DOMAIN job.timers = {"A", "B"}
  /\ job.key = "head" /\ job.step = 2

\* C22: a turn of the loop at a Branch step leaves the results and the timers
\* as they are, whether the step redirects, does not redirect, or raises.
C22_BranchLeavesResults ==
  [][(AtCall(job) /\ StepName(job) \in BranchNames)
       => job'.results = job.results /\ job'.timers = job.timers]_vars

\* C22 witness: a Branch step has redirected a run that had results and a
\* timer: both are what the Regular step before it left.
C22_Witness ==
  /\ job.pc = "loop"
  /\ job.invoked = <<"A", "branch 1">>
  /\ job.redirected
  /\ job.key = "alt" /\ job.step = 0
  /\ DOMAIN job.timers = {"A"}
  /\ job.results = [k \in {"a"} |-> 1]

\* ------------------------------- properties: errors of the configuration

\* A dict of sequences that is not empty and has no key 'head'.
Headless(x) == x.tag = "dict" /\ DOMAIN x.v # {} /\ "head" \notin DOMAIN x.v

\* C23 (as claimed): the error of a mapping of sequences without 'head'
\* always reaches the caller: a direct call of UpdatePipeline raises, and so
\* does Process_ConfigFile when the configuration module supplies such a
\* mapping, without starting a job on the graph it had before.
C23_ConfigErrorReachesCaller ==
  /\ (call.op = "UpdatePipeline" /\ Headless(call.new_pipeline_steps))
       => call.raised
  /\ (call.op = "Process_ConfigFile" /\ Headless(call.config.new_pipeline_steps))
       => /\ call.raised
          /\ call.runs \notin {"Process_Image", "Process_List"}

\* ------------------------------------ properties: the pipeline during runs

\* C24: no step of a batch run, in either mode, in any order of the jobs and
\* whatever they return or raise, changes the registry or the sequence graph.
C24_RunsLeavePipeline ==
  [][/\ pipeline_methods' = pipeline_methods
     /\ pipeline_steps' = pipeline_steps]_vars

\* C24 witness: a pool run of three images, of which one failed and one
\* succeeded, has returned, and the registry and graph are the configured ones.
C24_Witness ==
  /\ batch.pc = "returned"
  /\ batch.mode = "pool"
  /\ batch.n = 3
  /\ \E i, k \in 1..batch.n :
       EqualsOne(batch.ran[i].ret) /\ batch.ran[k].ret.tag = "dict"
  /\ pipeline_steps = [k \in {"head"} |-> <<"B", "A">>]
  /\ pipeline_methods["A"] = "Step_Hard"
  /\ pipeline_methods["background"] = "Background_Mode"

\* ----------------------------------------- properties: the jobs of a batch

\* The tasks of the map that hold position i.
TasksOf(b, i) ==
  {k \in 1..NumChunks(b.n, b.chunksize) :
     i \in Range(ChunkItems(k, b.n, b.chunksize))}

\* C25 (as claimed): when Process_List has ended, every one of the N jobs has
\* been executed; the sequential map is used for n_procs <= 1 and the pool
\* otherwise, with tasks of 5 consecutive jobs for more than 100 images and of
\* 1 job otherwise, every job in exactly one task.
C25_EveryJobExecuted ==
  batch.pc \in {"returned", "raised"}
    => /\ \A i \in 1..batch.n : batch.ran[i].tag = "ran"
       /\ batch.mode = IF batch.options["n_procs"].v > 1 THEN "pool" ELSE "seq"
       /\ batch.mode = "pool"
            => batch.chunksize = IF batch.n > 100 THEN 5 ELSE 1
       /\ \A i \in 1..batch.n : Cardinality(TasksOf(batch, i)) = 1

\* ------------------------------------------ properties: the error log

\* The frame of the job's image file cannot be read: lines 121-125.
LoadFailure == Read_Image(JobFile).tag = "raise"

\* The frame was read and is None or all zero in its centre window: lines
\* 128-130.
EmptyFrame ==
  LET got == Read_Image(JobFile) IN
  got.tag # "raise" /\ (got.tag = "none" \/ CenterAllZero(got.v))

C27_DispatchByName ==
  [][(AtCall(job) /\ CallValue(job).tag # "raise")
       => LET name == StepName(job)
              out == CallValue(job)
          IN IF name \in BranchNames
             THEN /\ job'.pc = "loop"
                  /\ job'.dat = job.dat
                  /\ job'.results = job.results
                  /\ job'.timers = job.timers
                  /\ IF out.tag = "str"
                     THEN job'.key = out.v /\ job'.step = 0
                     ELSE job'.key = job.key /\ job'.step = job.step + 1
             ELSE IF out.tag = "tuple" /\ out.res.tag = "dict"
             THEN /\ job'.pc = "loop"
                  /\ job'.dat = out.dat
                  /\ job'.results = DictUpdate(job.results, out.res.v)
                  /\ DOMAIN job'.timers = (DOMAIN job.timers) \cup {name}
                  /\ job'.key = job.key /\ job'.step = job.step + 1
             ELSE /\ job'.pc = "returned"
                  /\ EqualsOne(job'.ret)]_vars

\* C27 witness: the registry holds a Regular function, which returns a frame
\* and partial results, for the name 'branch 1'; the step was called first in
\* head and the run went on to the next index with no result and no timer.
C27_Witness ==
  /\ pipeline_methods["branch 1"] = "Step_A"
  /\ pipeline_steps["head"] = <<"branch 1">>
  /\ job.invoked = <<"branch 1">>
  /\ job.key = "head" /\ job.step = 1
  /\ job.results = EmptyDict
  /\ job.timers = EmptyDict

\* ------------------------------------------ properties: runs without redirect

\* self.pipeline_steps['head']
HeadSteps == pipeline_steps["head"]

\* C28: as long as no Branch step has returned a sequence name, the steps
\* that were called are the first steps of head, in the order of head and each
\* once, so there are at most len(head) of them; the run stands in head at
\* the index after the last of them, no exception leaves it, and every turn
\* of the loop ends the run or moves the index on by one.  A run that ends
\* without a fault has called every step of head and returns its timers.
C28_HeadRunsOnceInOrder ==
  /\ [](~job.redirected
         => /\ Len(job.invoked) <= Len(HeadSteps)
            /\ job.invoked = SubSeq(HeadSteps, 1, Len(job.invoked))
            /\ job.nticks = Len(job.invoked)
            /\ job.pc # "raised"
            /\ job.pc = "loop"
                 => job.key = "head" /\ job.step = Len(job.invoked)
            /\ (job.pc = "returned" /\ ~EqualsOne(job.ret))
                 => job.invoked = HeadSteps /\ job.ret.tag = "dict")
  /\ [][(job.pc = "loop" /\ ~job'.redirected)
          => \/ job'.pc = "returned"
             \/ job'.pc = "loop" /\ job'.step = job.step + 1]_vars

\* C28 witness: a run over head = A, branch 1, B whose Branch step returned
\* None has called the three steps in that order and returned its timers.
C28_Witness ==
  /\ HeadSteps = <<"A", "branch 1", "B">>
  /\ pipeline_methods["branch 1"] = "Branch_None"
  /\ ~job.redirected
  /\ job.pc = "returned"
  /\ job.ret.tag = "dict"
  /\ job.invoked = HeadSteps

\* ------------------------------------ properties: the options of the jobs

\* The name Process_Image gives the job of image i of batch b.
JobName(b, i) == PyStr(DeriveName(Chars(ImageList(b)[i].v)))

\* C29: in a batch run, sequential or on the pool, the options a job receives
\* are the ones built for its image from the batch options, with no name in
\* them: the name a job writes goes into its own options and nowhere else, so
\* the options of a job that has not run yet are still as they were built;
\* and no step of the run changes the batch options of the caller.
C29_OwnOptionsPerJob ==
  /\ [](batch.pc \in {"map", "returned", "raised"}
         => \A i \in 1..batch.n :
              IF batch.ran[i].tag = "ran"
              THEN /\ batch.ran[i].given = batch.use_options[i]
                   /\ "name" \notin DOMAIN batch.ran[i].given
                   /\ batch.ran[i].options =
                        DictUpdate(batch.use_options[i],
                                   [k \in {"name"} |-> JobName(batch, i)])
              ELSE batch.held[i] = batch.use_options[i])
  /\ [][batch'.options = batch.options]_vars

\* C29 witness: a sequential batch of two images has returned; each job wrote
\* the name of its own image into its options, the second job received
\* options without a name, and the batch options are the caller's.
C29_Witness ==
  /\ batch.pc = "returned"
  /\ batch.mode = "seq"
  /\ batch.n = 2
  /\ ImageList(batch) = <<PyStr("good"), PyStr("hard")>>
  /\ batch.ran[1].options["name"] = PyStr(<<"/", "g">>)
  /\ batch.ran[2].options["name"] = PyStr(<<"h">>)
  /\ "name" \notin DOMAIN batch.ran[2].given
  /\ batch.options = BatchOptions(<<"good", "hard">>, 1)

====
